---- MODULE Spec2Model ----
(***************************************************************************)
(* Model of scratchattach/site/alert.py: EducatorAlert.from_json and the   *)
(* alert_type, message and target_object_title properties.                 *)
(*                                                                         *)
(* Python values are tagged records: [t |-> "none"], [t |-> "int", n],     *)
(* [t |-> "float", n] (whole floats n.0), [t |-> "bool", n] (False = 0,    *)
(* True = 1), [t |-> "str", s], [t |-> "jsontext", toks] (a str whose      *)
(* content is kept as its JSON tokens), [t |-> "dict", items] (the items   *)
(* in insertion order) and [t |-> "datetime", iso].                        *)
(***************************************************************************)
EXTENDS Integers, Sequences, FiniteSets, TLC

VARIABLES data, input0, pc, alert, exc, emitted, ret

vars == <<data, input0, pc, alert, exc, emitted, ret>>

\* ---------------------------------------------------------------- bounds
MaxCommentType == 2
MaxType == 2

\* ------------------------------------------------------- Python values
None == [t |-> "none"]
PyInt(n) == [t |-> "int", n |-> n]
PyFloat(n) == [t |-> "float", n |-> n]
PyBool(n) == [t |-> "bool", n |-> n]
Str(s) == [t |-> "str", s |-> s]
JsonText(toks) == [t |-> "jsontext", toks |-> toks]
Dict(items) == [t |-> "dict", items |-> items]
False == PyBool(0)
True == PyBool(1)

IsDict(v) == v.t = "dict"
IsStr(v) == v.t \in {"str", "jsontext"}

\* x == n for a Python value x and an int literal n: int, float and bool
\* compare by numeric value (False == 0 and 0.0 == 0 are true).
PyEqInt(x, n) == x.t \in {"int", "float", "bool"} /\ x.n = n

\* key in d
Has(d, k) == \E i \in 1..Len(d.items) : d.items[i].k = k

\* d[k] for a key that is present
Item(d, k) == d.items[CHOOSE i \in 1..Len(d.items) : d.items[i].k = k].v

\* d.get(k, default)
GetDefault(d, k, default) == IF Has(d, k) THEN Item(d, k) ELSE default

\* d.get(k)
Get(d, k) == GetDefault(d, k, None)

\* d[k] = v: replaces the value of an existing key, appends a new one
SetItem(d, k, v) ==
    IF Has(d, k)
    THEN Dict([i \in 1..Len(d.items) |->
                 IF d.items[i].k = k THEN [k |-> k, v |-> v] ELSE d.items[i]])
    ELSE Dict(Append(d.items, [k |-> k, v |-> v]))

\* str(x) as str.format renders a bound value
format_value(x) ==
    CASE x.t = "str" -> x.s
      [] x.t = "none" -> "None"
      [] OTHER -> "<object>"

\* ------------------------------------------------------------ JSON text
Tok(kind, lex) == [kind |-> kind, lex |-> lex]
LBrace == Tok("punct", "{")
RBrace == Tok("punct", "}")
Colon == Tok("punct", ":")
Comma == Tok("punct", ",")

IntLex == <<"0", "1", "2", "3", "4", "5", "6", "7", "8", "9">>
FloatLex == <<"0.0", "1.0", "2.0", "3.0", "4.0", "5.0", "6.0", "7.0", "8.0", "9.0">>

\* json.dumps of a value, as tokens
RECURSIVE dumps(_)
RECURSIVE dumpsItems(_, _)
dumpsItems(items, i) ==
    IF i > Len(items) THEN <<>>
    ELSE (IF i > 1 THEN <<Comma>> ELSE <<>>)
         \o <<Tok("str", items[i].k), Colon>> \o dumps(items[i].v)
         \o dumpsItems(items, i + 1)

dumps(v) ==
    CASE v.t = "none" -> <<Tok("lit", "null")>>
      [] v.t = "bool" -> <<Tok("lit", IF v.n = 1 THEN "true" ELSE "false")>>
      [] v.t = "int" -> <<Tok("num", IntLex[v.n + 1])>>
      [] v.t = "float" -> <<Tok("num", FloatLex[v.n + 1])>>
      [] v.t = "str" -> <<Tok("str", v.s)>>
      [] v.t = "dict" -> <<LBrace>> \o dumpsItems(v.items, 1) \o <<RBrace>>

\* The decoder: a result is [ok, val, next]; next is the index after the value.
Fail == [ok |-> FALSE, val |-> None, next |-> 0]
Ok(v, n) == [ok |-> TRUE, val |-> v, next |-> n]

DecodeNum(lex) ==
    IF \E n \in 1..Len(IntLex) : IntLex[n] = lex
    THEN PyInt((CHOOSE n \in 1..Len(IntLex) : IntLex[n] = lex) - 1)
    ELSE PyFloat((CHOOSE n \in 1..Len(FloatLex) : FloatLex[n] = lex) - 1)

RECURSIVE ParseValue(_, _)
RECURSIVE ParseMembers(_, _, _)
\* after "{" or ",": "key" ":" value, then "," or "}"
ParseMembers(toks, i, acc) ==
    IF i + 2 > Len(toks) \/ toks[i].kind # "str" \/ toks[i + 1] # Colon THEN Fail
    ELSE LET r == ParseValue(toks, i + 2) IN
         IF ~r.ok \/ r.next > Len(toks) THEN Fail
         ELSE LET d == SetItem(acc, toks[i].lex, r.val) IN
              IF toks[r.next] = RBrace THEN Ok(d, r.next + 1)
              ELSE IF toks[r.next] = Comma THEN ParseMembers(toks, r.next + 1, d)
              ELSE Fail

ParseValue(toks, i) ==
    IF i > Len(toks) THEN Fail
    ELSE LET tk == toks[i] IN
         CASE tk.kind = "lit" ->
                Ok(CASE tk.lex = "null" -> None
                     [] tk.lex = "true" -> True
                     [] tk.lex = "false" -> False, i + 1)
           [] tk.kind = "num" -> Ok(DecodeNum(tk.lex), i + 1)
           [] tk.kind = "str" -> Ok(Str(tk.lex), i + 1)
           [] tk = LBrace ->
                IF i + 1 <= Len(toks) /\ toks[i + 1] = RBrace
                THEN Ok(Dict(<<>>), i + 2)
                ELSE ParseMembers(toks, i + 1, Dict(<<>>))
           [] OTHER -> Fail

\* A call result: exc = "" and val the value returned, or exc the exception raised.
Returns(v) == [exc |-> "", val |-> v]
Raises(e) == [exc |-> e, val |-> None]

\* json.loads(s)
json_loads(s) ==
    IF ~IsStr(s) THEN Raises("TypeError")
    ELSE IF s.t # "jsontext" THEN Raises("JSONDecodeError")
    ELSE LET r == ParseValue(s.toks, 1) IN
         IF r.ok /\ r.next = Len(s.toks) + 1 THEN Returns(r.val)
         ELSE Raises("JSONDecodeError")

\* datetime.fromisoformat(s)
WellFormedISO == {"2024-05-01T10:00:00", "2024-05-02T11:30:00"}
fromisoformat(s) ==
    IF s.t # "str" THEN Raises("TypeError")
    ELSE IF s.s \in WellFormedISO THEN Returns([t |-> "datetime", iso |-> s.s])
    ELSE Raises("ValueError")

\* ------------------------------------------------- the domain objects
User(username, id, icon_url, admin) ==
    [t |-> "User", username |-> username, id |-> id, icon_url |-> icon_url, admin |-> admin]
Project(id, title) == [t |-> "Project", id |-> id, title |-> title]
Studio(id, title) == [t |-> "Studio", id |-> id, title |-> title]
Comment(id, content, source, source_id) ==
    [t |-> "Comment", id |-> id, content |-> content, source |-> source, source_id |-> source_id]

\* warnings.warn(...): the two messages of from_json; both embed pprint.pformat(data)
CommentTypeWarning(comment_type, d) ==
    [about |-> "comment_type", comment_type |-> comment_type, response |-> d]
ExtraDataWarning(d) == [about |-> "extra_data", response |-> d]

\* ---------------------------------------------- EducatorAlert.from_json
\* user.User(username=..., id=..., icon_url=..., admin=..., _session=_session)
\* from admin_action.get("target_user") or admin_action.get("actor")
UserFromData(user_data) ==
    IF ~IsDict(user_data) THEN Raises("AttributeError")
    ELSE Returns(User(Get(user_data, "username"), Get(user_data, "pk"),
                      Get(user_data, "thumbnail_url"),
                      GetDefault(user_data, "admin", False)))

\* the if/elif/else on comment_type: the source type and the warnings emitted
CommentSourceType(comment_type, d) ==
    IF PyEqInt(comment_type, 0) THEN [source |-> Str("project"), warnings |-> <<>>]
    ELSE IF PyEqInt(comment_type, 1) THEN [source |-> Str("profile"), warnings |-> <<>>]
    ELSE [source |-> Str("Unknown"), warnings |-> <<CommentTypeWarning(comment_type, d)>>]

\* the "elif "comment_content" in extra_data" branch
CommentBranch(extra_data, object_id, d) ==
    LET comment_data == Item(extra_data, "comment_content") IN
    IF ~IsDict(comment_data) THEN Raises("AttributeError")
    ELSE LET content == Get(comment_data, "content")
             comment_obj_id == Get(comment_data, "comment_obj_id")
             comment_type == Get(comment_data, "comment_type")
             src == CommentSourceType(comment_type, d)
         IN  [exc |-> "",
              val |-> [target_object |-> Comment(object_id, content, src.source, comment_obj_id),
                       notification_type |-> None,
                       warnings |-> src.warnings]]

Classified(target_object, notification_type, warnings) ==
    Returns([target_object |-> target_object, notification_type |-> notification_type,
             warnings |-> warnings])

\* Classify with the comment test moved ahead of the project test
ClassifyCommentFirst(extra_data, object_id, d) ==
    IF ~IsDict(extra_data) THEN Raises("TypeError")
    ELSE IF Has(extra_data, "comment_content")
    THEN CommentBranch(extra_data, object_id, d)
    ELSE IF Has(extra_data, "project_title")
    THEN Classified(Project(object_id, Item(extra_data, "project_title")), None, <<>>)
    ELSE IF Has(extra_data, "gallery_title")
    THEN Classified(Studio(object_id, Item(extra_data, "gallery_title")), None, <<>>)
    ELSE IF Has(extra_data, "notification_type")
    THEN Classified(None, Item(extra_data, "notification_type"), <<>>)
    ELSE Classified(None, None, <<ExtraDataWarning(d)>>)

\* Classify with the notification_type test as an `if` of its own
ClassifyNotificationIf(extra_data, object_id, d) ==
    IF ~IsDict(extra_data) THEN Raises("TypeError")
    ELSE LET notification_type == GetDefault(extra_data, "notification_type", None) IN
    IF Has(extra_data, "project_title")
    THEN Classified(Project(object_id, Item(extra_data, "project_title")),
                    notification_type, <<>>)
    ELSE IF Has(extra_data, "comment_content")
    THEN LET c == CommentBranch(extra_data, object_id, d) IN
         IF c.exc # "" THEN c
         ELSE Classified(c.val.target_object, notification_type, c.val.warnings)
    ELSE IF Has(extra_data, "gallery_title")
    THEN Classified(Studio(object_id, Item(extra_data, "gallery_title")),
                    notification_type, <<>>)
    ELSE IF Has(extra_data, "notification_type")
    THEN Classified(None, notification_type, <<>>)
    ELSE Classified(None, None, <<ExtraDataWarning(d)>>)

\* the classification chain on the decoded extra_data
Classify(extra_data, object_id, d) ==
    IF ~IsDict(extra_data) THEN Raises("TypeError")  \* "project_title" in None
    ELSE IF Has(extra_data, "project_title")
    THEN Classified(Project(object_id, Item(extra_data, "project_title")), None, <<>>)
    ELSE IF Has(extra_data, "comment_content")
    THEN CommentBranch(extra_data, object_id, d)
    ELSE IF Has(extra_data, "gallery_title")
    THEN Classified(Studio(object_id, Item(extra_data, "gallery_title")), None, <<>>)
    ELSE IF Has(extra_data, "notification_type")
    THEN Classified(None, Item(extra_data, "notification_type"), <<>>)
    ELSE Classified(None, None, <<ExtraDataWarning(d)>>)

\* time_read = datetime.fromisoformat(fields.get("educator_datetime_read"))
TimeRead(fields) == fromisoformat(Get(fields, "educator_datetime_read"))

\* TimeCreated that swallows the parse error and leaves the time unset
TimeCreatedLenient(admin_action) ==
    LET r == fromisoformat(Get(admin_action, "datetime_created")) IN
    IF r.exc # "" THEN Returns(None) ELSE r

\* time_created = datetime.fromisoformat(admin_action.get("datetime_created"))
TimeCreated(admin_action) == fromisoformat(Get(admin_action, "datetime_created"))

\* extra_data = json.loads(admin_action.get("extra_data", "{}"))
ExtraData(admin_action) ==
    json_loads(GetDefault(admin_action, "extra_data", JsonText(<<LBrace, RBrace>>)))

\* EducatorAlert that keeps only the "fields" part of the payload as raw
EducatorAlertRawFields(id, model, type, raw, time_read, time_created, target, actor, target_object, notification_type) ==
    [t |-> "EducatorAlert", id |-> id, model |-> model, type |-> type,
     raw |-> Get(raw, "fields"),
     time_read |-> time_read, time_created |-> time_created, target |-> target,
     actor |-> actor, target_object |-> target_object,
     notification_type |-> notification_type]

\* return cls(id=alert_id, model=model, type=alert_type, raw=data, ...)
EducatorAlert(id, model, type, raw, time_read, time_created, target, actor, target_object, notification_type) ==
    [t |-> "EducatorAlert", id |-> id, model |-> model, type |-> type, raw |-> raw,
     time_read |-> time_read, time_created |-> time_created, target |-> target,
     actor |-> actor, target_object |-> target_object,
     notification_type |-> notification_type]

Raised(e) == [exc |-> e, val |-> None, warnings |-> <<>>]

\* from_json(data): the exception raised or the alert returned, and the
\* warnings emitted on the way
from_json(d) ==
    LET model == Get(d, "model")
        alert_id == Get(d, "pk")
        fields == Get(d, "fields")
    IN
    IF ~IsDict(fields) THEN Raised("AttributeError") ELSE
    LET time_read == TimeRead(fields) IN
    IF time_read.exc # "" THEN Raised(time_read.exc) ELSE
    LET admin_action == Get(fields, "admin_action") IN
    IF ~IsDict(admin_action) THEN Raised("AttributeError") ELSE
    LET time_created == TimeCreated(admin_action) IN
    IF time_created.exc # "" THEN Raised(time_created.exc) ELSE
    LET alert_type == Get(admin_action, "type")
        target == UserFromData(Get(admin_action, "target_user"))
    IN
    IF target.exc # "" THEN Raised(target.exc) ELSE
    LET actor == UserFromData(Get(admin_action, "actor")) IN
    IF actor.exc # "" THEN Raised(actor.exc) ELSE
    LET object_id == Get(admin_action, "object_id")
        extra_data == ExtraData(admin_action)
    IN
    IF extra_data.exc # "" THEN Raised(extra_data.exc) ELSE
    LET c == Classify(extra_data.val, object_id, d) IN
    IF c.exc # "" THEN Raised(c.exc) ELSE
    [exc |-> "",
     val |-> EducatorAlert(alert_id, model, alert_type, d, time_read.val,
                           time_created.val, target.val, actor.val,
                           c.val.target_object, c.val.notification_type),
     warnings |-> c.val.warnings]

\* ------------------------------------------------ enums.AlertTypes
\* A message template is a sequence of literal text and {placeholder} parts.
Lit(text) == [kind |-> "lit", text |-> text]
Field(name) == [kind |-> "field", text |-> name]
AlertType(id, message) == [t |-> "AlertType", id |-> id, message |-> message]

AlertTypesTable ==
    <<AlertType(0, <<Field("username"), Lit(" was warned")>>),
      AlertType(1, <<Field("username"), Lit(" project="), Field("project"),
                     Lit(" studio="), Field("studio"),
                     Lit(" comment="), Field("comment"),
                     Lit(" notification="), Field("notification_type")>>)>>

\* enums.AlertTypes.default.value
AlertTypesDefault ==
    AlertType(-1, <<Field("username"), Lit(" had an admin action performed")>>)

\* enums.AlertTypes.find(value): the entry with that id, or None
AlertTypesFind(value) ==
    IF \E i \in 1..Len(AlertTypesTable) : PyEqInt(value, AlertTypesTable[i].id)
    THEN AlertTypesTable[CHOOSE i \in 1..Len(AlertTypesTable) :
                            PyEqInt(value, AlertTypesTable[i].id)]
    ELSE None

\* bool(x) of the values alert_type tests
Truthy(x) == x.t # "none"

\* ------------------------------------------------ the properties
\* alert_type that discards the entry found
alert_typeAlwaysDefault(self) == AlertTypesDefault

\* EducatorAlert.alert_type
alert_type(self) ==
    LET found == AlertTypesFind(self.type) IN
    IF ~Truthy(found) THEN AlertTypesDefault ELSE found

\* target_object_title without the Studio case
target_object_titleProjectOnly(self) ==
    IF self.target_object.t = "Project" THEN self.target_object.title
    ELSE None

\* EducatorAlert.target_object_title
target_object_title(self) ==
    IF self.target_object.t = "Project" THEN self.target_object.title
    ELSE IF self.target_object.t = "Studio" THEN self.target_object.title
    ELSE None

\* the keyword arguments message passes to str.format
MessageKwargs(self) ==
    LET comment_content ==
            IF self.target_object.t = "Comment" THEN self.target_object.content
            ELSE Str("")
    IN  [username |-> self.target.username,
         project |-> target_object_title(self),
         studio |-> target_object_title(self),
         notification_type |-> self.notification_type,
         comment |-> comment_content]

\* raw_message.format(**kwargs): the rendered parts, in order
Format(raw_message, kwargs) ==
    [i \in 1..Len(raw_message) |->
        IF raw_message[i].kind = "lit" THEN raw_message[i].text
        ELSE format_value(kwargs[raw_message[i].text])]

\* EducatorAlert.message
message(self) == Format(alert_type(self).message, MessageKwargs(self))

\* ------------------------------------------------------------ inputs
\* Absent marks a key the generated dict does not have.
Absent == [t |-> "absent"]
MkDict(pairs) == Dict(SelectSeq(pairs, LAMBDA p : p.v # Absent))
KV(k, v) == [k |-> k, v |-> v]

CommentTypeValues ==
    {Absent, None, PyFloat(0), PyFloat(1), False, True, Str("0")}
        \cup {PyInt(n) : n \in 0..MaxCommentType}

CommentContents ==
    {MkDict(<<KV("content", c), KV("comment_obj_id", PyInt(7)), KV("comment_type", ct)>>) :
        c \in {Absent, Str("hi")}, ct \in CommentTypeValues}

Opt(v) == {Absent, v}

ExtraDataDicts ==
    {MkDict(<<KV("notification_type", n), KV("gallery_title", g),
              KV("comment_content", c), KV("project_title", p), KV("other", o)>>) :
        n \in Opt(Str("N")), g \in Opt(Str("G")), c \in {Absent} \cup CommentContents,
        p \in Opt(Str("P")), o \in {Absent}}
    \cup {MkDict(<<KV("other", Str("X")), KV("project_title", p)>>) : p \in Opt(Str("P"))}

\* the values of admin_action["extra_data"]: absent, null, the empty string,
\* the text "null", and the encodings of the dicts above
ExtraDataValues ==
    {Absent, None, JsonText(<<>>), JsonText(dumps(None))}
        \cup {JsonText(dumps(x)) : x \in ExtraDataDicts}

StudentData ==
    Dict(<<KV("username", Str("alice")), KV("pk", PyInt(3)),
           KV("thumbnail_url", Str("//cdn/3.png")), KV("admin", False)>>)
AdminData ==
    Dict(<<KV("username", Str("mod")), KV("pk", PyInt(4)),
           KV("thumbnail_url", Str("//cdn/4.png")), KV("admin", True)>>)
NoAdminFlagData ==
    Dict(<<KV("username", Str("bob")), KV("pk", PyInt(5)),
           KV("thumbnail_url", Str("//cdn/5.png"))>>)

UserPairs ==
    {<<StudentData, AdminData>>, <<NoAdminFlagData, AdminData>>, <<StudentData, Absent>>}

TimeReadValues == {Absent, None, Str("2024-05-02T11:30:00"), Str("yesterday")}
TimeCreatedValues == {Absent, Str("2024-05-01T10:00:00"), Str("01/05/2024")}
TypeValues == {Absent} \cup {PyInt(n) : n \in 0..MaxType}

MkData(read, created, type, users, extra) ==
    MkDict(<<KV("model", Str("educators.educatoralert")), KV("pk", PyInt(9)),
             KV("fields", MkDict(<<
                KV("educator_datetime_read", read),
                KV("admin_action", MkDict(<<
                    KV("datetime_created", created), KV("type", type),
                    KV("target_user", users[1]), KV("actor", users[2]),
                    KV("object_id", PyInt(8)), KV("extra_data", extra)>>))>>))>>)

Inputs ==
    {MkData(r, c, ty, u, x) : r \in TimeReadValues, c \in TimeCreatedValues,
                              ty \in TypeValues, u \in UserPairs, x \in ExtraDataValues}
    \cup {Dict(<<KV("model", Str("educators.educatoralert")), KV("pk", PyInt(9))>>)}

\* ------------------------------------------------------- the state machine
\* data is the object the caller passes; input0 is its value at the call.
Init ==
    /\ data \in Inputs
    /\ input0 = data
    /\ pc = "start"
    /\ alert = None
    /\ exc = ""
    /\ emitted = <<>>
    /\ ret = [op |-> "none"]

\* alert = EducatorAlert.from_json(data)
FromJson ==
    /\ pc = "start"
    /\ LET r == from_json(data) IN
       /\ exc' = r.exc
       /\ alert' = r.val
       /\ emitted' = emitted \o r.warnings
       /\ pc' = IF r.exc = "" THEN "returned" ELSE "raised"
    /\ UNCHANGED <<data, input0, ret>>

\* alert.alert_type
GetAlertType ==
    /\ pc = "returned"
    /\ ret' = [op |-> "alert_type", val |-> alert_type(alert)]
    /\ UNCHANGED <<data, input0, pc, alert, exc, emitted>>

\* alert.target_object_title
GetTargetObjectTitle ==
    /\ pc = "returned"
    /\ ret' = [op |-> "target_object_title", val |-> target_object_title(alert)]
    /\ UNCHANGED <<data, input0, pc, alert, exc, emitted>>

\* alert.message
GetMessage ==
    /\ pc = "returned"
    /\ ret' = [op |-> "message", val |-> message(alert), kwargs |-> MessageKwargs(alert)]
    /\ UNCHANGED <<data, input0, pc, alert, exc, emitted>>

Next == FromJson \/ GetAlertType \/ GetTargetObjectTitle \/ GetMessage

Spec == Init /\ [][Next]_vars

TypeOK ==
    /\ pc \in {"start", "returned", "raised"}
    /\ (pc = "returned") => alert.t = "EducatorAlert"
    /\ (pc # "returned") => alert = None

\* ------------------------------------------------ reading the input
\* The parts of the input the statements below speak about, read from
\* input0 (None where the enclosing dict is missing).
InFields == Get(input0, "fields")
InAdminAction == IF IsDict(InFields) THEN Get(InFields, "admin_action") ELSE None
InTimeRead == IF IsDict(InFields) THEN Get(InFields, "educator_datetime_read") ELSE None
InTimeCreated ==
    IF IsDict(InAdminAction) THEN Get(InAdminAction, "datetime_created") ELSE None
InObjectId == Get(InAdminAction, "object_id")
\* the decoded extra_data of an input whose extra_data decodes
InExtraData ==
    json_loads(GetDefault(InAdminAction, "extra_data", JsonText(dumps(Dict(<<>>))))).val
InCommentType == Get(Item(InExtraData, "comment_content"), "comment_type")

WellFormedTime(v) == v.t = "str" /\ v.s \in WellFormedISO
\* key k is not in d, or d[k] is a string that is not a well-formed timestamp
MissingOrMalformed(d, k) ==
    \/ ~IsDict(d)
    \/ ~Has(d, k)
    \/ (Item(d, k).t = "str" /\ Item(d, k).s \notin WellFormedISO)
ConformingUser(v) == IsDict(v) /\ Has(v, "username") /\ Has(v, "pk")

\* the input has the shape of the input contract, up to educator_datetime_read
\* and extra_data
ConformingEnvelope ==
    /\ IsDict(InFields) /\ IsDict(InAdminAction)
    /\ WellFormedTime(InTimeCreated)
    /\ Has(InAdminAction, "type") /\ Has(InAdminAction, "object_id")
    /\ ConformingUser(Get(InAdminAction, "target_user"))
    /\ ConformingUser(Get(InAdminAction, "actor"))

\* extra_data is absent or the encoding of an object
ConformingExtraData ==
    LET r == json_loads(GetDefault(InAdminAction, "extra_data", JsonText(dumps(Dict(<<>>))))) IN
    r.exc = "" /\ IsDict(r.val)

Called == pc # "start"
Returned == pc = "returned"

HasPT == Has(InExtraData, "project_title")
HasCC == Has(InExtraData, "comment_content")
HasGT == Has(InExtraData, "gallery_title")
HasNT == Has(InExtraData, "notification_type")
CommentBranchTaken == ~HasPT /\ HasCC

\* the JSON number n (written n or n.0), and nothing else
IsCode(v, n) == v.t \in {"int", "float"} /\ v.n = n

\* ------------------------------------------------------------ C1
\* C1: a returned alert is classified by the first discriminator key present
\* in the decoded extra_data, in the order project_title, comment_content,
\* gallery_title, notification_type: a Project (id = object_id, title = the
\* project_title value) whatever other keys are present; else a Comment with
\* id = object_id; else a Studio (id = object_id, title = the gallery_title
\* value); else notification_type is that value and there is no target
\* object; else neither is set.
C1_FirstMatchClassification ==
    Returned =>
        /\ HasPT =>
            /\ alert.target_object = Project(InObjectId, Item(InExtraData, "project_title"))
            /\ alert.notification_type = None
        /\ (~HasPT /\ HasCC) =>
            /\ alert.target_object.t = "Comment"
            /\ alert.target_object.id = InObjectId
            /\ alert.notification_type = None
        /\ (~HasPT /\ ~HasCC /\ HasGT) =>
            /\ alert.target_object = Studio(InObjectId, Item(InExtraData, "gallery_title"))
            /\ alert.notification_type = None
        /\ (~HasPT /\ ~HasCC /\ ~HasGT /\ HasNT) =>
            /\ alert.target_object = None
            /\ alert.notification_type = Item(InExtraData, "notification_type")
        /\ (~HasPT /\ ~HasCC /\ ~HasGT /\ ~HasNT) =>
            /\ alert.target_object = None
            /\ alert.notification_type = None

\* all four keys present, classified as a Project
C1_Witness ==
    /\ Returned /\ HasPT /\ HasCC /\ HasGT /\ HasNT
    /\ alert.target_object = Project(PyInt(8), Str("P"))

\* ------------------------------------------------------------ C2
\* C2: a returned alert never has both target_object and notification_type set.
C2_AtMostOneClassification ==
    Returned => ~(alert.target_object # None /\ alert.notification_type # None)

\* notification_type and gallery_title both present: a Studio, no notification_type
C2_Witness ==
    /\ Returned /\ ~HasPT /\ ~HasCC /\ HasGT /\ HasNT
    /\ alert.target_object.t = "Studio"
    /\ alert.notification_type = None

\* ------------------------------------------------------------ C3
\* C3: in the comment branch the Comment's source is "project" for
\* comment_type 0, "profile" for comment_type 1 and "Unknown" for every other
\* value, a missing one included; one warning is emitted in the "Unknown"
\* case and none otherwise, and a Comment is produced in all three cases.
C3_CommentSourceType ==
    (Returned /\ CommentBranchTaken) =>
        LET expected ==
                IF IsCode(InCommentType, 0) THEN "project"
                ELSE IF IsCode(InCommentType, 1) THEN "profile"
                ELSE "Unknown"
        IN  /\ alert.target_object.t = "Comment"
            /\ alert.target_object.source = Str(expected)
            /\ Len(emitted) = (IF expected = "Unknown" THEN 1 ELSE 0)

\* ------------------------------------------------------------ C4
\* C4: with extra_data absent, the empty string or "{}", and the rest of the
\* input well formed, the call returns an alert with neither target_object
\* nor notification_type set and emits exactly one warning.
C4_EmptyExtraData ==
    (/\ Called /\ ConformingEnvelope /\ WellFormedTime(InTimeRead)
     /\ GetDefault(InAdminAction, "extra_data", JsonText(<<>>))
            \in {JsonText(<<>>), JsonText(<<LBrace, RBrace>>)})
    => /\ Returned
       /\ alert.target_object = None
       /\ alert.notification_type = None
       /\ Len(emitted) = 1

\* ------------------------------------------------------------ C5
\* C5: an input that conforms to the input contract with
\* educator_datetime_read = null is accepted: an alert is returned whose
\* time_read is None and whose other fields are populated from the input.
C5_UnreadAlertAccepted ==
    (/\ Called /\ ConformingEnvelope /\ ConformingExtraData
     /\ Has(InFields, "educator_datetime_read") /\ InTimeRead = None)
    => /\ Returned
       /\ alert.time_read = None
       /\ alert.time_created.iso = InTimeCreated.s
       /\ alert.id = Get(input0, "pk")
       /\ alert.type = Get(InAdminAction, "type")
       /\ alert.target.t = "User" /\ alert.actor.t = "User"

\* ------------------------------------------------------------ C6
\* C6: when educator_datetime_read or datetime_created is missing or is not
\* a well-formed timestamp, the call raises and returns no alert.
C6_BadTimestampIsFatal ==
    (Called /\ (\/ MissingOrMalformed(InFields, "educator_datetime_read")
                \/ MissingOrMalformed(InAdminAction, "datetime_created")))
    => /\ pc = "raised"
       /\ exc # ""
       /\ alert = None

\* a well-formed read time and a malformed creation time: ValueError
C6_Witness ==
    /\ pc = "raised" /\ exc = "ValueError"
    /\ WellFormedTime(InTimeRead)
    /\ Has(InAdminAction, "datetime_created") /\ ~WellFormedTime(InTimeCreated)

\* ------------------------------------------------------------ C7
\* C7: a returned alert's raw is the input passed to from_json, and that
\* input is as it was at the call.
C7_RawIsInput ==
    Returned => (alert.raw = input0 /\ data = input0)

\* a call that emitted a warning and returned the input as raw
C7_Witness ==
    /\ Returned /\ Len(emitted) = 1 /\ CommentBranchTaken
    /\ alert.raw = data /\ IsDict(Get(alert.raw, "fields"))

\* ------------------------------------------------------------ C8
\* C8: message binds project and studio to the same value, the value of
\* target_object_title: the title of a Project or Studio target, None for a
\* Comment or no target; comment is the Comment's content for a Comment
\* target and the empty string otherwise.
C8_MessageBindings ==
    Returned =>
        LET title == IF alert.target_object.t \in {"Project", "Studio"}
                     THEN alert.target_object.title ELSE None
            content == IF alert.target_object.t = "Comment"
                       THEN alert.target_object.content ELSE Str("")
        IN  /\ ret.op = "target_object_title" => ret.val = title
            /\ ret.op = "message" =>
                /\ ret.kwargs.project = title
                /\ ret.kwargs.studio = title
                /\ ret.kwargs.project = target_object_title(alert)
                /\ ret.kwargs.comment = content

\* the message of an alert about a Studio
C8_Witness ==
    /\ Returned /\ ret.op = "message"
    /\ alert.target_object.t = "Studio"
    /\ ret.kwargs.studio = Str("G") /\ ret.kwargs.comment = Str("")

\* ------------------------------------------------------------ C9
\* C9: for a type code that is not in the alert-type table alert_type is the
\* default entry and message renders the default template; for a code in the
\* table alert_type is the entry of that code, not the default.
TypeInTable ==
    \E i \in 1..Len(AlertTypesTable) : alert.type = PyInt(AlertTypesTable[i].id)

C9_DefaultAlertType ==
    Returned =>
        /\ (ret.op = "alert_type" /\ ~TypeInTable) => ret.val = AlertTypesDefault
        /\ (ret.op = "alert_type" /\ TypeInTable) =>
            /\ PyInt(ret.val.id) = alert.type
            /\ ret.val # AlertTypesDefault
        /\ (ret.op = "message" /\ ~TypeInTable) =>
            ret.val = Format(AlertTypesDefault.message, ret.kwargs)
        /\ (ret.op = "message" /\ TypeInTable) =>
            ret.val # Format(AlertTypesDefault.message, ret.kwargs)

\* the message of an alert whose integer type code is not in the table
C9_Witness ==
    /\ Returned /\ ret.op = "message"
    /\ alert.type.t = "int" /\ ~TypeInTable
    /\ ret.val = <<"alice", " had an admin action performed">>

\* ------------------------------------------------------------ C10
\* C10: a call emits at most one warning, and a call that returns emits one
\* exactly when the comment branch is taken with a comment_type that is
\* neither 0 nor 1, or extra_data has none of the four discriminator keys;
\* the alert is returned with id, type, times, target and actor populated,
\* and the warning carries the whole input.
C10_Diagnostics ==
    /\ Len(emitted) <= 1
    /\ Returned =>
        /\ Len(emitted) = 1 <=>
            \/ (CommentBranchTaken /\ ~IsCode(InCommentType, 0) /\ ~IsCode(InCommentType, 1))
            \/ (~HasPT /\ ~HasCC /\ ~HasGT /\ ~HasNT)
        /\ alert.id = Get(input0, "pk")
        /\ alert.type = Get(InAdminAction, "type")
        /\ alert.time_read.iso = InTimeRead.s
        /\ alert.time_created.iso = InTimeCreated.s
        /\ alert.target.t = "User" /\ alert.actor.t = "User"
        /\ \A i \in 1..Len(emitted) : emitted[i].response = input0
====
